---- MODULE Spec2Model ----
(***************************************************************************)
(* Model of cloth_recyclability_gui.py: the textile table, the brightness  *)
(* classifier analyze_image, the rule engine ai_cloth_analysis, and the    *)
(* two Tk callbacks upload_image and run_analysis with the SQLite history  *)
(* table they write.                                                       *)
(*                                                                         *)
(* Python floats are IEEE-754 doubles.  They are modelled exactly: a       *)
(* double is m * 2^e with m an odd natural of at most 53 bits, kept as a   *)
(* little-endian sequence of 15-bit limbs, and every operation rounds to   *)
(* nearest, ties to even, as the hardware does.                            *)
(***************************************************************************)
EXTENDS Integers, Sequences, FiniteSets, TLC

(***************************************************************************)
(* Natural numbers of arbitrary size (little-endian limbs, no leading      *)
(* zero limb; zero is the empty sequence).                                 *)
(***************************************************************************)
Radix == 2^15

LimbWidth == 15

RECURSIVE NatNorm(_)
NatNorm(n) ==
  IF n = <<>> THEN <<>>
  ELSE IF n[Len(n)] = 0 THEN NatNorm(SubSeq(n, 1, Len(n) - 1))
  ELSE n

RECURSIVE NatFromInt(_)
NatFromInt(i) ==
  IF i = 0 THEN <<>> ELSE <<i % Radix>> \o NatFromInt(i \div Radix)

RECURSIVE NatToInt(_)
NatToInt(n) ==
  IF n = <<>> THEN 0 ELSE n[1] + Radix * NatToInt(Tail(n))

RECURSIVE NatAddC(_, _, _)
NatAddC(a, b, c) ==
  IF a = <<>> /\ b = <<>> THEN (IF c = 0 THEN <<>> ELSE <<c>>)
  ELSE LET x == IF a = <<>> THEN 0 ELSE a[1]
           y == IF b = <<>> THEN 0 ELSE b[1]
           s == x + y + c
       IN  <<s % Radix>> \o NatAddC(IF a = <<>> THEN <<>> ELSE Tail(a),
                                    IF b = <<>> THEN <<>> ELSE Tail(b),
                                    s \div Radix)

NatAdd(a, b) == NatAddC(a, b, 0)

RECURSIVE NatMulSmallC(_, _, _)
NatMulSmallC(a, k, c) ==
  IF a = <<>> THEN (IF c = 0 THEN <<>> ELSE <<c>>)
  ELSE LET p == a[1] * k + c
       IN  <<p % Radix>> \o NatMulSmallC(Tail(a), k, p \div Radix)

\* a * k for 0 <= k < Radix
NatMulSmall(a, k) == IF k = 0 THEN <<>> ELSE NatMulSmallC(a, k, 0)

RECURSIVE NatMul(_, _)
NatMul(a, b) ==
  IF b = <<>> \/ a = <<>> THEN <<>>
  ELSE LET rest == NatMul(a, Tail(b))
       IN  NatAdd(NatMulSmall(a, b[1]),
                  IF rest = <<>> THEN <<>> ELSE <<0>> \o rest)

RECURSIVE NatCmpFrom(_, _, _)
NatCmpFrom(a, b, i) ==
  IF i = 0 THEN 0
  ELSE IF a[i] < b[i] THEN -1
  ELSE IF a[i] > b[i] THEN 1
  ELSE NatCmpFrom(a, b, i - 1)

\* -1, 0 or 1 as a < b, a = b, a > b
NatCmp(a, b) ==
  IF Len(a) < Len(b) THEN -1
  ELSE IF Len(a) > Len(b) THEN 1
  ELSE NatCmpFrom(a, b, Len(a))

RECURSIVE NatDivSmallFrom(_, _, _, _)
NatDivSmallFrom(a, d, i, r) ==
  IF i = 0 THEN <<<<>>, r>>
  ELSE LET cur  == r * Radix + a[i]
           rest == NatDivSmallFrom(a, d, i - 1, cur % d)
       IN  <<rest[1] \o <<cur \div d>>, rest[2]>>

\* <<a \div d, a % d>> for 0 < d <= Radix
NatDivSmall(a, d) ==
  LET qr == NatDivSmallFrom(a, d, Len(a), 0)
  IN  <<NatNorm(qr[1]), qr[2]>>

Zeros(k) == [i \in 1..k |-> 0]

\* a * 2^bits
NatShl(a, bits) ==
  IF a = <<>> THEN <<>>
  ELSE Zeros(bits \div LimbWidth) \o NatMulSmall(a, 2^(bits % LimbWidth))

\* a \div 2^bits
NatShr(a, bits) ==
  LET k == bits \div LimbWidth
  IN  IF k >= Len(a) THEN <<>>
      ELSE NatDivSmall(SubSeq(a, k + 1, Len(a)), 2^(bits % LimbWidth))[1]

\* a % 2^bits
NatLow(a, bits) ==
  LET k == bits \div LimbWidth
  IN  IF k >= Len(a) THEN a
      ELSE NatNorm(SubSeq(a, 1, k) \o <<a[k + 1] % 2^(bits % LimbWidth)>>)

RECURSIVE IntBitLen(_)
IntBitLen(i) == IF i = 0 THEN 0 ELSE 1 + IntBitLen(i \div 2)

NatBitLen(a) ==
  IF a = <<>> THEN 0 ELSE LimbWidth * (Len(a) - 1) + IntBitLen(a[Len(a)])

RECURSIVE IntTrailingZeros(_)
IntTrailingZeros(i) == IF i % 2 = 1 THEN 0 ELSE 1 + IntTrailingZeros(i \div 2)

RECURSIVE NatTrailingZeros(_)
\* for a # 0
NatTrailingZeros(a) ==
  IF a[1] = 0 THEN LimbWidth + NatTrailingZeros(Tail(a))
  ELSE IntTrailingZeros(a[1])

NatIsOdd(a) == a # <<>> /\ a[1] % 2 = 1

(***************************************************************************)
(* IEEE-754 binary64 values >= 0 (Python float): [m, e] is m * 2^e.        *)
(***************************************************************************)
MantissaBits == 53

FZero == [m |-> <<>>, e |-> 0]

\* the unique representation with m odd
FCanon(n, e) ==
  IF n = <<>> THEN FZero
  ELSE LET tz == NatTrailingZeros(n)
       IN  [m |-> NatShr(n, tz), e |-> e + tz]

\* the double nearest to (n + f) * 2^e, where 0 < f < 1 if sticky and f = 0
\* otherwise; ties to even
FRound(n, e, sticky) ==
  LET len == NatBitLen(n)
  IN  IF len <= MantissaBits THEN FCanon(n, e)
      ELSE LET k    == len - MantissaBits
               q    == NatShr(n, k)
               r    == NatLow(n, k)
               half == NatShl(<<1>>, k - 1)
               c    == NatCmp(r, half)
               up   == c = 1 \/ (c = 0 /\ (sticky \/ NatIsOdd(q)))
           IN  FCanon(IF up THEN NatAdd(q, <<1>>) ELSE q, e + k)

\* int -> float conversion
FFromInt(i) == FCanon(NatFromInt(i), 0)

GuardBits == 75

\* the double nearest to num / den (0 <= num, 0 < den <= Radix): a decimal
\* literal d.d is FFromRatio(dd, 10); the quotient of two exact floats
FFromRatio(num, den) ==
  LET qr == NatDivSmall(NatShl(NatFromInt(num), GuardBits), den)
  IN  FRound(qr[1], -GuardBits, qr[2] # 0)

\* a * b
FMul(a, b) == FRound(NatMul(a.m, b.m), a.e + b.e, FALSE)

\* -1, 0, 1 as a < b, a = b, a > b
FCmp(a, b) ==
  LET e == IF a.e < b.e THEN a.e ELSE b.e
  IN  NatCmp(NatShl(a.m, a.e - e), NatShl(b.m, b.e - e))

\* a >= i for an int i
FGeInt(a, i) == FCmp(a, FFromInt(i)) >= 0

\* format(a, ".2f"): the decimal with two places nearest to a, ties to even,
\* as a number of hundredths
FFormat2(a) ==
  LET n == NatMulSmall(a.m, 100)
  IN  IF a.e >= 0 THEN NatToInt(NatShl(n, a.e))
      ELSE LET k    == -a.e
               q    == NatShr(n, k)
               r    == NatLow(n, k)
               c    == NatCmp(r, NatShl(<<1>>, k - 1))
               up   == c = 1 \/ (c = 0 /\ NatIsOdd(q))
           IN  NatToInt(q) + (IF up THEN 1 ELSE 0)

\* a float literal with one decimal place, given by its digits: FLit(15) is 1.5
FLit(tenths) == FFromRatio(tenths, 10)

(***************************************************************************)
(* State.                                                                  *)
(*   disk          the files a path can name: decodable or not, and the    *)
(*                 pixels of the image in mode "L" (one byte per pixel)    *)
(*   textile_combo the combobox selection ("" until the user picks one)    *)
(*   image_path    the global of that name; Unbound until the first upload *)
(*   image_label   the path of the image the preview shows, "" for the     *)
(*                 placeholder text                                        *)
(*   result        the StringVar of the result panel: <<>> while empty,    *)
(*                 else the one report it shows                            *)
(*   history       the committed rows of table analysis_history            *)
(*   pending       the rows inserted in the connection's open transaction  *)
(*   clock         the local wall clock, in ticks                          *)
(*   filedialog    what the last askopenfilename returned, NoDialog if     *)
(*                 none was opened since the program started               *)
(*   messagebox    the error dialog the last callback showed, "" if none   *)
(*   uncaught      the exception that left the last callback, "" if none   *)
(*   fn_*          one call of the rule engine on the file sample.png      *)
(*   fn_verdict    one classification of a percentage given directly       *)
(***************************************************************************)
VARIABLES disk, textile_combo, image_path, image_label, result, history,
          pending, clock, filedialog, messagebox, uncaught,
          fn_textile, fn_class, fn_result, fn_row, fn_seen, fn_verdict

gui_vars == <<textile_combo, image_path, image_label, result, history,
              pending, clock, filedialog, messagebox, uncaught>>

fn_vars == <<fn_textile, fn_class, fn_result, fn_row, fn_seen, fn_verdict>>

vars == <<disk, gui_vars, fn_vars>>

(***************************************************************************)
(* Bounds of the model.                                                    *)
(***************************************************************************)
\* rows (committed and pending) a behaviour may hold
MaxLog == 2

\* the wall clock runs over 0..MaxClock
MaxClock == 2

\* pixels of the image sample.png
Pixels == 2

(***************************************************************************)
(* TEXTILE DATA.  carbon holds the digits of the literal: 15 is 1.5.       *)
(***************************************************************************)
TEXTILE_DATA ==
  [Cotton    |-> [base |-> 80, carbon |-> 15],
   Linen     |-> [base |-> 75, carbon |-> 14],
   Silk      |-> [base |-> 65, carbon |-> 20],
   Wool      |-> [base |-> 70, carbon |-> 22],
   Polyester |-> [base |-> 25, carbon |-> 45],
   Nylon     |-> [base |-> 20, carbon |-> 42],
   Acrylic   |-> [base |-> 15, carbon |-> 48],
   Elastane  |-> [base |-> 10, carbon |-> 50]]

TextileNames == DOMAIN TEXTILE_DATA

(***************************************************************************)
(* Values and exceptions.  A call returns [exc, val]: exc is "" and val    *)
(* the value, or exc names the exception raised.                           *)
(***************************************************************************)
Return(v) == [exc |-> "", val |-> v]

Raise(e) == [exc |-> e, val |-> <<>>]

Unbound == "<unbound>"

NoDialog == "<no dialog>"

\* Image.open(path) followed by the load that resize/convert force: the
\* pixels, or the exception
ImageOpenStrict(path) ==
  IF path = Unbound THEN Raise("NameError")
  ELSE IF path \notin DOMAIN disk THEN Raise("FileNotFoundError")
  ELSE IF ~disk[path].decodable THEN Raise("UnidentifiedImageError")
  ELSE Return(disk[path].pixels)

ImageOpenLenient(path) ==
  IF path = Unbound THEN Raise("NameError")
  ELSE IF path \notin DOMAIN disk THEN Raise("FileNotFoundError")
  ELSE IF ~disk[path].decodable THEN Return(<<0>>)
  ELSE Return(disk[path].pixels)

ImageOpen(path) == ImageOpenStrict(path)

RECURSIVE PixelSum(_)
PixelSum(pixels) ==
  IF pixels = <<>> THEN 0 ELSE Head(pixels) + PixelSum(Tail(pixels))

\* numpy mean of a uint8 array: the float64 sum over the size
PixelMean(pixels) == FFromRatio(PixelSum(pixels), Len(pixels))

(***************************************************************************)
(* AI IMAGE ANALYSIS                                                       *)
(***************************************************************************)
\* the bands with exclusive lower bounds
ClassifyBrightnessStrict(brightness) ==
  IF FCmp(brightness, FFromInt(170)) > 0 THEN <<FLit(10), "Excellent">>
  ELSE IF FCmp(brightness, FFromInt(120)) > 0 THEN <<FLit(8), "Good">>
  ELSE IF FCmp(brightness, FFromInt(80)) > 0 THEN <<FLit(6), "Worn">>
  ELSE <<FLit(4), "Poor">>

\* the bands with the factors of Good and Worn exchanged
ClassifyBrightnessSwapped(brightness) ==
  IF FGeInt(brightness, 170) THEN <<FLit(10), "Excellent">>
  ELSE IF FGeInt(brightness, 120) THEN <<FLit(6), "Good">>
  ELSE IF FGeInt(brightness, 80) THEN <<FLit(8), "Worn">>
  ELSE <<FLit(4), "Poor">>

ClassifyBrightness(brightness) ==
  IF FGeInt(brightness, 170) THEN <<FLit(10), "Excellent">>
  ELSE IF FGeInt(brightness, 120) THEN <<FLit(8), "Good">>
  ELSE IF FGeInt(brightness, 80) THEN <<FLit(6), "Worn">>
  ELSE <<FLit(4), "Poor">>

analyze_image(path) ==
  LET img == ImageOpen(path)
  IN  IF img.exc # "" THEN img
      ELSE Return(ClassifyBrightness(PixelMean(img.val)))

\* the thresholds with exclusive lower bounds
VerdictOfStrict(recycle_percent) ==
  IF FCmp(recycle_percent, FFromInt(60)) > 0
    THEN "U+2705 Recyclable & Sustainable"
  ELSE IF FCmp(recycle_percent, FFromInt(35)) > 0
    THEN "U+26A0 U+FE0F Partially Recyclable"
  ELSE "U+274C Not Recommended"

VerdictOf(recycle_percent) ==
  IF FGeInt(recycle_percent, 60) THEN "U+2705 Recyclable & Sustainable"
  ELSE IF FGeInt(recycle_percent, 35) THEN "U+26A0 U+FE0F Partially Recyclable"
  ELSE "U+274C Not Recommended"

ai_cloth_analysis(textile, path) ==
  IF textile \notin TextileNames THEN Raise("KeyError")
  ELSE LET base        == TEXTILE_DATA[textile].base
           carbon_rate == FLit(TEXTILE_DATA[textile].carbon)
           fc          == analyze_image(path)
       IN  IF fc.exc # "" THEN fc
           ELSE LET factor          == fc.val[1]
                    condition       == fc.val[2]
                    recycle_percent == FMul(FFromInt(base), factor)
                    carbon_impact   == FMul(recycle_percent, carbon_rate)
                IN  Return(<<recycle_percent, condition, carbon_impact,
                             VerdictOf(recycle_percent)>>)

(***************************************************************************)
(* DATABASE and GUI FUNCTIONS                                              *)
(***************************************************************************)
GenericMessage == "Please select textile type and upload an image"

\* the combobox offers every key of TEXTILE_DATA; a behaviour of the model
\* picks among these
UserTextiles == {"Cotton", "Polyester"}

\* the files of the session: two photographs and a text file renamed .png
SessionDisk ==
  [bright_png |-> [decodable |-> TRUE,  pixels |-> <<210, 190>>],
   dark_jpg   |-> [decodable |-> TRUE,  pixels |-> <<90, 110>>],
   notes_png  |-> [decodable |-> FALSE, pixels |-> <<>>]]

\* what filedialog.askopenfilename returns: "" when the dialog is cancelled
DialogResults == {""} \cup DOMAIN SessionDisk

TicksPerSecond == 2

\* datetime.now().strftime("%Y-%m-%d %H:%M:%S"): the reading cut to whole
\* seconds; the fixed-width fields make the text order the order of the number
Strftime(now) == now \div TicksPerSecond

\* the parameters of the INSERT statement
InsertParamsExact(textile, res, now) ==
  [textile         |-> textile,
   recycle_percent |-> res[1],
   condition       |-> res[2],
   carbon_impact   |-> res[3],
   verdict         |-> res[4],
   timestamp       |-> Strftime(now)]

\* round(x, 2)
FRound2(a) == FFromRatio(FFormat2(a), 100)

\* the parameters with the two numbers rounded as the display rounds them
InsertParamsRounded(textile, res, now) ==
  [textile         |-> textile,
   recycle_percent |-> FRound2(res[1]),
   condition       |-> res[2],
   carbon_impact   |-> FRound2(res[3]),
   verdict         |-> res[4],
   timestamp       |-> Strftime(now)]

InsertParams(textile, res, now) == InsertParamsExact(textile, res, now)

\* id INTEGER PRIMARY KEY AUTOINCREMENT: one more than the rows of the table
\* as the connection sees it
WithId(params, rows) ==
  [id              |-> Len(rows) + 1,
   textile         |-> params.textile,
   recycle_percent |-> params.recycle_percent,
   condition       |-> params.condition,
   carbon_impact   |-> params.carbon_impact,
   verdict         |-> params.verdict,
   timestamp       |-> params.timestamp]

\* the text result.set shows: the two numbers through format(x, ".2f")
ResultText(textile, res) ==
  [textile   |-> textile,
   condition |-> res[2],
   recycle   |-> FFormat2(res[1]),
   carbon    |-> FFormat2(res[3]),
   verdict   |-> res[4]]

\* the statements of the try block of run_analysis, in order
run_analysis_body_source ==
  <<"get_textile", "check_inputs", "analyze", "set_result", "insert", "commit">>

\* the same statements with result.set after the commit
run_analysis_body_late ==
  <<"get_textile", "check_inputs", "analyze", "insert", "commit", "set_result">>

run_analysis_body == run_analysis_body_source

\* the bare "except:" catches every exception
CaughtAll(exc) == TRUE

\* "except ValueError:"
CaughtValueError(exc) == exc = "ValueError"

Caught(exc) == CaughtAll(exc)

Throw(f, e) == [f EXCEPT !.exc = e]

\* the frames one statement can end in; the database decides whether INSERT
\* and COMMIT succeed
ExecStmt(stmt, f) ==
  CASE stmt = "get_textile" ->
         {[f EXCEPT !.textile = textile_combo]}
    [] stmt = "check_inputs" ->
         IF f.textile = "" THEN {Throw(f, "ValueError")}
         ELSE IF image_path = Unbound THEN {Throw(f, "NameError")}
         ELSE IF image_path = "" THEN {Throw(f, "ValueError")}
         ELSE {f}
    [] stmt = "analyze" ->
         LET r == ai_cloth_analysis(f.textile, image_path)
         IN  IF r.exc # "" THEN {Throw(f, r.exc)}
             ELSE {[f EXCEPT !.res = r.val]}
    [] stmt = "set_result" ->
         {[f EXCEPT !.result = <<ResultText(f.textile, f.res)>>]}
    [] stmt = "insert" ->
         { Throw(f, "OperationalError"),
           [f EXCEPT !.pending =
              Append(f.pending,
                     WithId(InsertParams(f.textile, f.res, clock),
                            f.history \o f.pending))] }
    [] stmt = "commit" ->
         { [f EXCEPT !.history = f.history \o f.pending, !.pending = <<>>],
           \* SQLITE_BUSY: the transaction stays open
           Throw(f, "OperationalError"),
           \* SQLITE_FULL, SQLITE_IOERR: SQLite rolls the transaction back
           [Throw(f, "OperationalError") EXCEPT !.pending = <<>>] }

RECURSIVE Exec(_, _)
Exec(stmts, f) ==
  IF stmts = <<>> \/ f.exc # "" THEN {f}
  ELSE UNION { Exec(Tail(stmts), g) : g \in ExecStmt(Head(stmts), f) }

Frame0 ==
  [exc |-> "", textile |-> "", res |-> <<>>, result |-> result,
   history |-> history, pending |-> pending]

\* the combobox is read-only: the user picks one of its values
SelectTextile ==
  /\ \E t \in UserTextiles : textile_combo' = t
  /\ messagebox' = ""
  /\ uncaught' = ""
  /\ UNCHANGED <<disk, image_path, image_label, result, history, pending,
                 clock, filedialog, fn_vars>>

\* the value image_path has after the dialog returned choice
NewImagePathAssigned(choice) == choice

NewImagePathKept(choice) == IF choice = "" THEN image_path ELSE choice

NewImagePath(choice) == NewImagePathAssigned(choice)

upload_image ==
  \E choice \in DialogResults :
    LET path == NewImagePath(choice)
        img  == ImageOpen(path)
    IN  /\ filedialog' = choice
        /\ image_path' = path
        /\ IF choice = "" THEN /\ image_label' = image_label
                               /\ uncaught' = ""
           ELSE IF img.exc # "" THEN /\ image_label' = image_label
                                      /\ uncaught' = img.exc
           ELSE /\ image_label' = path
                /\ uncaught' = ""
        /\ messagebox' = ""
        /\ UNCHANGED <<disk, textile_combo, result, history, pending, clock,
                       fn_vars>>

run_analysis ==
  \E f \in Exec(run_analysis_body, Frame0) :
    /\ Len(f.history) + Len(f.pending) <= MaxLog
    /\ result' = f.result
    /\ history' = f.history
    /\ pending' = f.pending
    /\ IF f.exc = "" THEN /\ messagebox' = ""
                          /\ uncaught' = ""
       ELSE IF Caught(f.exc) THEN /\ messagebox' = GenericMessage
                                  /\ uncaught' = ""
       ELSE /\ messagebox' = ""
            /\ uncaught' = f.exc
    /\ UNCHANGED <<disk, textile_combo, image_path, image_label, clock,
                   filedialog, fn_vars>>

\* the window is closed and the program started again: the globals are gone,
\* the open transaction is rolled back, the database file stays
Restart ==
  /\ textile_combo' = ""
  /\ image_path' = Unbound
  /\ image_label' = ""
  /\ result' = <<>>
  /\ pending' = <<>>
  /\ filedialog' = NoDialog
  /\ messagebox' = ""
  /\ uncaught' = ""
  /\ UNCHANGED <<disk, history, clock, fn_vars>>

\* the local wall clock: it runs, and it is set back (the end of daylight
\* saving time, a correction of the clock)
ClockTick ==
  /\ clock < MaxClock
  /\ clock' = clock + 1
  /\ UNCHANGED <<disk, textile_combo, image_path, image_label, result,
                 history, pending, filedialog, messagebox, uncaught, fn_vars>>

ClockSetBack ==
  /\ \E t \in 0..(clock - 1) : clock' = t
  /\ UNCHANGED <<disk, textile_combo, image_path, image_label, result,
                 history, pending, filedialog, messagebox, uncaught, fn_vars>>

(***************************************************************************)
(* The rule engine on its own: the file sample.png holds an image of       *)
(* Pixels pixels, and the calls run over the images from the darkest to    *)
(* the brightest.                                                          *)
(***************************************************************************)
SamplePath == "sample_png"

\* an image of Pixels pixels whose pixel values add up to sum
SampleImage(sum) ==
  [i \in 1..Pixels |->
     IF sum >= 255 * i THEN 255
     ELSE IF sum <= 255 * (i - 1) THEN 0
     ELSE sum - 255 * (i - 1)]

SampleDisk(sum) ==
  [sample_png |-> [decodable |-> TRUE, pixels |-> SampleImage(sum)]]

SampleSum == PixelSum(disk[SamplePath].pixels)

FnIdle ==
  /\ fn_textile = ""
  /\ fn_class = <<>>
  /\ fn_result = <<>>
  /\ fn_row = <<>>
  /\ fn_seen = {}
  /\ fn_verdict = <<>>

GuiIdle ==
  /\ textile_combo = ""
  /\ image_path = Unbound
  /\ image_label = ""
  /\ result = <<>>
  /\ history = <<>>
  /\ pending = <<>>
  /\ clock = 0
  /\ filedialog = NoDialog
  /\ messagebox = ""
  /\ uncaught = ""

Init ==
  /\ disk = SessionDisk
  /\ GuiIdle
  /\ FnIdle

\* the events of the window
Next ==
  \/ SelectTextile
  \/ upload_image
  \/ run_analysis
  \/ Restart

\* the callbacks with the wall clock standing still
Spec == Init /\ [][Next]_vars

NextClock ==
  \/ Next
  \/ ClockTick
  \/ ClockSetBack

\* the callbacks under a wall clock that runs and is set back
SpecClock == Init /\ [][NextClock]_vars

FnInit ==
  /\ disk = SampleDisk(0)
  /\ GuiIdle
  /\ fn_textile \in TextileNames
  /\ fn_class = <<>>
  /\ fn_result = <<>>
  /\ fn_row = <<>>
  /\ fn_seen = {}
  /\ fn_verdict = <<>>

\* one call of analyze_image and of ai_cloth_analysis on the file, and the
\* parameters run_analysis would hand to INSERT
FnCall ==
  /\ fn_result = <<>>
  /\ LET r == ai_cloth_analysis(fn_textile, SamplePath)
     IN  /\ fn_class' = analyze_image(SamplePath).val
         /\ fn_result' = r.val
         /\ fn_row' = InsertParams(fn_textile, r.val, clock)
  /\ UNCHANGED <<disk, gui_vars, fn_textile, fn_seen, fn_verdict>>

\* the next brighter image is written and the results on the last one are
\* cleared; fn_seen keeps what the darker images gave
FnBrighter ==
  /\ fn_result # <<>>
  /\ SampleSum < 255 * Pixels
  /\ disk' = SampleDisk(SampleSum + 1)
  /\ fn_seen' = fn_seen \cup {fn_result}
  /\ fn_class' = <<>>
  /\ fn_result' = <<>>
  /\ fn_row' = <<>>
  /\ fn_verdict' = <<>>
  /\ UNCHANGED <<gui_vars, fn_textile>>

\* percentages at and just under the two thresholds, in thousandths
VerdictProbes == {34999, 35000, 59999, 60000}

\* the verdict branch of ai_cloth_analysis on a percentage of its own
FnVerdict ==
  /\ fn_result # <<>>
  /\ \E p \in VerdictProbes :
       fn_verdict' = <<p, VerdictOf(FFromRatio(p, 1000))>>
  /\ UNCHANGED <<disk, gui_vars, fn_textile, fn_class, fn_result, fn_row,
                 fn_seen>>

FnNext ==
  \/ FnCall
  \/ FnBrighter
  \/ FnVerdict

SpecFn == FnInit /\ [][FnNext]_vars

(***************************************************************************)
(* Properties.                                                             *)
(***************************************************************************)
Last(s) == s[Len(s)]

\* run_analysis cannot get past its inputs: no textile selected, no path
\* (never set, or the dialog cancelled), or a file that cannot be decoded
InputsFail ==
  \/ textile_combo = ""
  \/ image_path = Unbound
  \/ image_path = ""
  \/ image_path \notin DOMAIN disk
  \/ ~disk[image_path].decodable

Recyclable == "U+2705 Recyclable & Sustainable"

Partially == "U+26A0 U+FE0F Partially Recyclable"

NotRecommended == "U+274C Not Recommended"

\* the factor of a condition label, in tenths
FactorTenths(condition) ==
  CASE condition = "Excellent" -> 10
    [] condition = "Good" -> 8
    [] condition = "Worn" -> 6
    [] condition = "Poor" -> 4

\* C1: whenever run_analysis fails on its inputs (no textile selected, the
\* path empty or never set, the image not decodable), the history table
\* after the call is the table before the call, and no row is left in the
\* open transaction either.
C1_NoRecordOnFailure ==
  [][InputsFail /\ run_analysis =>
       /\ history' = history
       /\ pending' = pending
       /\ messagebox' = GenericMessage]_vars

\* a failed analysis of the undecodable file, with one row in the table
C1_Witness ==
  /\ messagebox = GenericMessage
  /\ textile_combo # ""
  /\ image_path = "notes_png"
  /\ Len(history) = 1

\* C2: the history table is append-only, and each successful run_analysis
\* makes it longer by exactly one row, the row of the selected textile.
C2_OneRecordPerSuccess ==
  [][/\ Len(history') >= Len(history)
     /\ SubSeq(history', 1, Len(history)) = history
     /\ (messagebox' = "" /\ run_analysis =>
           /\ Len(history') = Len(history) + 1
           /\ Last(history').textile = textile_combo)]_vars

\* 123.20000000000002 = 0x1.ecccccccccccep+6, the double one unit in the
\* last place above the double nearest to 123.2
WoolGoodCarbon == [m |-> <<26215, 19660, 6553, 123>>, e |-> -45]

\* the two products of a row, as float64 products of the table's literals,
\* and the percentage also as the correctly rounded decimal
RecordInvariant(row) ==
  LET profile == TEXTILE_DATA[row.textile]
      tenths  == FactorTenths(row.condition)
  IN  /\ row.condition \in {"Excellent", "Good", "Worn", "Poor"}
      /\ row.recycle_percent = FMul(FFromInt(profile.base), FLit(tenths))
      /\ row.recycle_percent = FFromRatio(profile.base * tenths, 10)
      /\ row.carbon_impact = FMul(row.recycle_percent, FLit(profile.carbon))

\* the row for textile on an image of mean brightness b
RowExample(textile, b, percent, condition, carbon) ==
  fn_textile = textile /\ SampleSum = b * Pixels =>
    /\ fn_row.recycle_percent = percent
    /\ fn_row.condition = condition
    /\ fn_row.carbon_impact = carbon

RecordExamples(woolCarbon) ==
  fn_row # <<>> =>
    /\ RecordInvariant(fn_row)
    /\ RowExample("Cotton", 200, FFromInt(80), "Excellent", FFromInt(120))
    /\ RowExample("Polyester", 100, FFromInt(15), "Worn", FFromRatio(675, 10))
    /\ RowExample("Wool", 130, FFromInt(56), "Good", woolCarbon)

\* C3 as amended: every row handed to INSERT holds the float64 products
\* baseline * factor (the factor of its condition) and recyclePercent *
\* carbonRate, unrounded; Cotton at 200 gives 80 / Excellent / 120,
\* Polyester at 100 gives 15 / Worn / 67.5, and Wool at 130 gives
\* 56 / Good / 123.20000000000002.
C3_RecordInvariant == RecordExamples(WoolGoodCarbon)

\* the row of Wool on an image of mean brightness 130
C3_Witness ==
  /\ fn_row # <<>>
  /\ fn_textile = "Wool"
  /\ SampleSum = 130 * Pixels

\* C3 as stated: the same, with carbonImpact 123.2 for Wool at 130
C3_Original == RecordExamples(FFromRatio(1232, 10))

\* C4: the mean brightness sum / Pixels falls in exactly one band, lower
\* bounds inclusive: >= 170 is (1.0, Excellent), 120 to under 170 is
\* (0.8, Good), 80 to under 120 is (0.6, Worn), under 80 is (0.4, Poor).
C4_BrightnessBands ==
  fn_class # <<>> =>
    LET s == SampleSum
        n == Pixels
    IN  /\ s >= 170 * n => fn_class = <<FFromInt(1), "Excellent">>
        /\ 120 * n <= s /\ s < 170 * n => fn_class = <<FLit(8), "Good">>
        /\ 80 * n <= s /\ s < 120 * n => fn_class = <<FLit(6), "Worn">>
        /\ s < 80 * n => fn_class = <<FLit(4), "Poor">>

\* an image one grey level short of mean brightness 120: Worn
C4_Witness ==
  /\ fn_class # <<>>
  /\ SampleSum = 120 * Pixels - 1
  /\ fn_class[2] = "Worn"

VerdictRank(v) ==
  CASE v = NotRecommended -> 0
    [] v = Partially -> 1
    [] v = Recyclable -> 2

\* the verdict for a percentage given exactly, in units of 1 / scale
VerdictFor(n, scale, rec, part, notrec) ==
  IF n >= 60 * scale THEN rec
  ELSE IF n >= 35 * scale THEN part
  ELSE notrec

VerdictThresholds(rec, part, notrec) ==
  /\ fn_row # <<>> =>
       LET tenths == TEXTILE_DATA[fn_row.textile].base
                       * FactorTenths(fn_row.condition)
       IN  /\ fn_row.recycle_percent = FFromRatio(tenths, 10)
           /\ fn_row.verdict = VerdictFor(tenths, 10, rec, part, notrec)
  /\ fn_verdict # <<>> =>
       fn_verdict[2] = VerdictFor(fn_verdict[1], 1000, rec, part, notrec)
  /\ fn_result # <<>> =>
       \A p, q \in fn_seen \cup {fn_result} :
         /\ p[1] = q[1] => p[4] = q[4]
         /\ FCmp(p[1], q[1]) <= 0 => VerdictRank(p[4]) <= VerdictRank(q[4])

\* C5 as amended: the verdict is a monotone function of recyclePercent
\* alone, >= 60 the first, 35 to under 60 the second, under 35 the third,
\* and the stored text is the category with its glyph in front:
\* U+2705 Recyclable & Sustainable, U+26A0 U+FE0F Partially Recyclable,
\* U+274C Not Recommended.
C5_VerdictThresholds == VerdictThresholds(Recyclable, Partially, NotRecommended)

\* exactly 60 (Linen, Good) stored as the first verdict, exactly 35
\* classified as the second
C5_Witness ==
  /\ fn_row # <<>>
  /\ fn_row.textile = "Linen"
  /\ fn_row.condition = "Good"
  /\ fn_row.verdict = Recyclable
  /\ fn_verdict = <<35000, Partially>>

\* C5 as stated: the stored verdict is one of the three texts without glyph
C5_Original ==
  VerdictThresholds("Recyclable & Sustainable", "Partially Recyclable",
                    "Not Recommended")

\* the states in which a click on "Run AI Analysis" is a step of the model:
\* some run of the body stays within MaxLog
run_analysis_enabled ==
  \E f \in Exec(run_analysis_body, Frame0) :
    Len(f.history) + Len(f.pending) <= MaxLog

\* C6: from every reachable state run_analysis can be invoked and ends in
\* one of two outcomes, a row appended or the one generic message shown
\* with the table as it was; no exception leaves it; upload_image and
\* run_analysis stay available afterwards.
C6_AppendOrMessage ==
  /\ [](run_analysis_enabled /\ DialogResults # {})
  /\ [][run_analysis =>
          /\ uncaught' = ""
          /\ \/ messagebox' = "" /\ Len(history') > Len(history)
             \/ messagebox' = GenericMessage /\ history' = history]_vars

\* run_analysis before any upload, a textile selected: the NameError of the
\* unbound global ended in the generic message
C6_Witness ==
  /\ messagebox = GenericMessage
  /\ textile_combo # ""
  /\ image_path = Unbound

\* C7: the timestamps of the table are non-decreasing in the order of the
\* ids.
C7_TimestampsNonDecreasing ==
  \A i, j \in 1..Len(history) :
    i <= j => history[i].timestamp <= history[j].timestamp

\* C8: for a fixed textile, an image at least as bright gives a
\* recyclePercent at least as large and a verdict that is not worse.
C8_MonotoneInBrightness ==
  fn_result # <<>> =>
    \A p \in fn_seen :
      /\ FCmp(p[1], fn_result[1]) <= 0
      /\ VerdictRank(p[4]) <= VerdictRank(fn_result[4])

\* the brightest image analysed after images of all four bands
C8_Witness ==
  /\ fn_result # <<>>
  /\ SampleSum = 255 * Pixels
  /\ Cardinality(fn_seen) = 4

\* C9: image_path is what the most recent dialog returned, whatever the
\* preview shows; with a textile selected and the preview showing an
\* earlier image, run_analysis after a cancelled dialog or after choosing
\* an undecodable file shows the message and adds no row.
C9_LastDialogPath ==
  /\ [](image_path = IF filedialog = NoDialog THEN Unbound ELSE filedialog)
  /\ [][/\ textile_combo # ""
        /\ image_label # ""
        /\ image_path = "" \/ ~disk[image_path].decodable
        /\ run_analysis
        => /\ messagebox' = GenericMessage
           /\ history' = history
           /\ pending' = pending]_vars

\* the preview shows the photograph, the dialog after it was cancelled, and
\* run_analysis failed
C9_Witness ==
  /\ image_label = "bright_png"
  /\ filedialog = ""
  /\ image_path = ""
  /\ textile_combo # ""
  /\ messagebox = GenericMessage

\* what the result panel shows for a row of the table
DisplayOf(row) ==
  [textile   |-> row.textile,
   condition |-> row.condition,
   recycle   |-> FFormat2(row.recycle_percent),
   carbon    |-> FFormat2(row.carbon_impact),
   verdict   |-> row.verdict]

\* the panel is empty or shows the last row of the table
ShowsLast ==
  \/ result = <<>>
  \/ history # <<>> /\ result = <<DisplayOf(Last(history))>>

\* C10: a run_analysis that fails on its inputs leaves the result panel as
\* it was; one that fails after the computation (INSERT or COMMIT) has
\* already put the new result on the panel, shows the message and leaves
\* the table as it was; the panel stops showing the last row of the table
\* only in that case.
C10_DisplayBeforeInsert ==
  [][/\ (InputsFail /\ run_analysis => result' = result)
     /\ (~InputsFail /\ messagebox' = GenericMessage /\ run_analysis =>
           /\ result' = <<ResultText(textile_combo,
                          ai_cloth_analysis(textile_combo, image_path).val)>>
           /\ history' = history)
     /\ (ShowsLast /\ ~ShowsLast' =>
           ~InputsFail /\ messagebox' = GenericMessage /\ run_analysis)]_vars

\* the panel shows a result, the message is up, the table is empty
C10_Witness ==
  /\ result # <<>>
  /\ messagebox = GenericMessage
  /\ history = <<>>
  /\ pending = <<>>

====
